---- MODULE Spec2Model ----
(***************************************************************************)
(* A model of the book catalog of library.py: the class Book with its      *)
(* to_dict / from_dict conversions and the class Library with load_books,  *)
(* save_books, add_book, delete_book, search_books and change_book_status. *)
(* Texts are sequences of one-letter strings, so that str.lower() and the  *)
(* substring test `in` are computed and not assumed.                       *)
(***************************************************************************)
EXTENDS Integers, Sequences, FiniteSets, TLC

\* ------------------------------------------------------------------ bounds

\* The longest catalog the model builds.
MaxBooks == 2

\* How many writes of the file may fail in one run.
MaxFaults == 1

\* ------------------------------------------------------------- input sets

\* The books handed to add_book, as (title, author, year): between them a
\* title filter and an author filter each keep some and drop others, and the
\* years are negative, zero and positive.
Inputs ==
    { << <<"A", "b">>, <<"B">>, 0 >>,
      << <<"b", "a">>, <<"a">>, -1 >>,
      << <<"A", "b">>, <<"a">>, 1 >>,
      << <<"b", "a">>, <<"B">>, 1 >> }

\* Two of them, for the runs in which writes fail and libraries are reopened.
FewInputs ==
    { << <<"A", "b">>, <<"B">>, 0 >>,
      << <<"b", "a">>, <<"a">>, -1 >> }

DefaultStatus == <<"i">>

Statuses == { DefaultStatus, <<"o">> }

BookIds == 1 .. (MaxBooks + 1)

\* An optional argument of search_books: given = FALSE is Python's None.
NoText == [given |-> FALSE, val |-> <<>>]

NoYear == [given |-> FALSE, val |-> 0]

Text(s) == [given |-> TRUE, val |-> s]

Year(n) == [given |-> TRUE, val |-> n]

TitleFilters == { NoText, Text(<<>>), Text(<<"a", "B">>), Text(<<"A">>) }

AuthorFilters == { NoText, Text(<<>>), Text(<<"b">>), Text(<<"a", "a">>) }

YearFilters == { NoYear, Year(-1), Year(0), Year(1) }

\* What a write of the file can do: succeed, fail in open() before the file
\* is touched, or fail after open() truncated it, leaving partial JSON.
WriteOutcomes == { "ok", "open_fail", "write_fail" }

\* ------------------------------------------------------------------- Book

\* Book.__init__ with every argument given.
Book(book_id, title, author, year, status) ==
    [book_id |-> book_id, title |-> title, author |-> author,
     year |-> year, status |-> status]

\* Book.__init__ with status left to its default.
NewBook(book_id, title, author, year) ==
    Book(book_id, title, author, year, DefaultStatus)

\* Book.to_dict: the mapping written to the file, keyed "id", not "book_id".
to_dict(book) ==
    [id |-> book.book_id, title |-> book.title, author |-> book.author,
     year |-> book.year, status |-> book.status]

\* from_dict leaving status to the default of Book.__init__.
from_dict_no_status(data) ==
    NewBook(data.id, data.title, data.author, data.year)

\* Book.from_dict.
from_dict(data) ==
    Book(data.id, data.title, data.author, data.year, data.status)

\* ------------------------------------------------------------------ state

VARIABLES
    books,      \* Library.books: the sequence of Book objects
    file,       \* the file at Library.file_path
    results,    \* the list the last search_books call returned to its caller
    last,       \* the last call: its name, arguments and outcome
    pre,        \* books and file as they were when the last call began
    addsOnly,   \* TRUE while every call so far was add_book
    added,      \* the arguments of those add_book calls, in order
    faults,     \* how many writes of the file have failed
    issued      \* the ids add_book has given to records so far

vars == <<books, file, results, last, pre, addsOnly, added, faults, issued>>

\* The file system's view of file_path.
MissingFile == [state |-> "missing", data |-> <<>>]

CorruptFile == [state |-> "corrupt", data |-> <<>>]

JsonFile(data) == [state |-> "json", data |-> data]

\* The list comprehension of save_books: every book's to_dict, in order.
Serialise(bks) == [i \in 1 .. Len(bks) |-> to_dict(bks[i])]

\* The list comprehension of load_books.
Deserialise(data) == [i \in 1 .. Len(data) |-> from_dict(data[i])]

\* save_books opening the file in mode "a": the list is written after what
\* the file held.
save_books_append(bks, f, w) ==
    CASE w = "ok" -> JsonFile(f.data \o Serialise(bks))
      [] w = "open_fail" -> f
      [] OTHER -> CorruptFile

\* Library.save_books on the list bks when the file is f and the write does w.
save_books(bks, f, w) ==
    CASE w = "ok" -> JsonFile(Serialise(bks))
      [] w = "open_fail" -> f
      [] OTHER -> CorruptFile

\* What the caller holds after search_books: alias says the list object is
\* Library.books itself, refs are the positions in Library.books of the Book
\* objects in the list (the objects themselves, not copies).
NoResults == [alias |-> FALSE, refs |-> <<>>]

\* Return values: None, and the two messages of delete_book.
RetNone == [kind |-> "None", id |-> 0]

RetNotFound(book_id) == [kind |-> "not_found", id |-> book_id]

RetDeleted(book_id) == [kind |-> "deleted", id |-> book_id]

\* str(e) of the exception a failed write raised.
RetError == [kind |-> "error", id |-> 0]

Call(op, book_id, title, author, year, status, ret, raised, write) ==
    [op |-> op, id |-> book_id, title |-> title, author |-> author,
     year |-> year, status |-> status, ret |-> ret, raised |-> raised,
     write |-> write]

\* What a write that did w raises.
Raised(w) == IF w = "ok" THEN "none" ELSE "OSError"

\* A write may fail only while the run's failures are not used up.
MayWrite(w) == w = "ok" \/ faults < MaxFaults

Faults(w) == IF w = "ok" THEN faults ELSE faults + 1

\* Library.__init__ returned: there is a Library object to call.
Constructed == ~ (last.op = "init" /\ last.raised # "none")

Snapshot == [books |-> books, file |-> file, issued |-> issued]

\* ------------------------------------------------------------------- Init

\* Library(file_path) on a path that holds no file.
Init ==
    /\ books = <<>>
    /\ file = MissingFile
    /\ results = NoResults
    /\ last = Call("init", 0, <<>>, <<>>, 0, <<>>, RetNone, "none", "none")
    /\ pre = [books |-> <<>>, file |-> MissingFile, issued |-> {}]
    /\ addsOnly = TRUE
    /\ added = <<>>
    /\ faults = 0
    /\ issued = {}

\* ---------------------------------------------------------------- Library

\* The keys Book.from_dict reads.
Keys == {"id", "title", "author", "year", "status"}

\* from_dict finds every key it reads: data[...] raises no KeyError.
WellFormed(data) == Keys \subseteq DOMAIN data

\* Every entry of the file can be read by from_dict.
Readable(f) == \A i \in 1 .. Len(f.data) : WellFormed(f.data[i])

\* load_books catching the KeyError of an entry and going on to the next.
load_books_lenient(f) ==
    IF f.state = "json" THEN Deserialise(SelectSeq(f.data, WellFormed)) ELSE <<>>

\* Library.load_books when the file is f: the books read, the list being
\* left as __init__ set it (empty) when there is no file or when json.load or
\* from_dict raises before the assignment.
load_books(f) ==
    IF f.state = "json" /\ Readable(f) THEN Deserialise(f.data) ELSE <<>>

\* json.load raises on a file that holds no complete JSON text, from_dict on
\* an entry that lacks a key.
LoadRaises(f) ==
    CASE f.state = "corrupt" -> "JSONDecodeError"
      [] f.state = "json" /\ ~ Readable(f) -> "KeyError"
      [] OTHER -> "none"

\* Library.__init__ on the same path: a later run of the program.
NewLibrary ==
    /\ books' = load_books(file)
    /\ file' = file
    /\ results' = NoResults
    /\ last' = Call("init", 0, <<>>, <<>>, 0, <<>>, RetNone,
                    LoadRaises(file), "none")
    /\ pre' = Snapshot
    /\ addsOnly' = FALSE
    /\ added' = <<>>
    /\ issued' = issued
    /\ faults' = faults

\* The id counted from zero.
NextId_zero_based(bks) == Len(bks)

\* The id taken as if the new book were already in the list.
NextId_after_append(bks) == Len(bks) + 2

\* The id taken one above the largest id in the list.
NextId_above_largest(bks) ==
    IF bks = <<>> THEN 1
    ELSE 1 + (CHOOSE n \in {bks[i].book_id : i \in 1 .. Len(bks)} :
                  \A i \in 1 .. Len(bks) : bks[i].book_id <= n)

\* The id add_book gives the new book when the list is bks.
NextId(bks) == Len(bks) + 1

\* add_book putting the new book first, with insert(0, ...).
Added_front(bks, title, author, year) ==
    <<NewBook(NextId(bks), title, author, year)>> \o bks

\* add_book handing author and title to Book in the wrong order.
Added_swapped(bks, title, author, year) ==
    Append(bks, NewBook(NextId(bks), author, title, year))

\* The list after add_book's append.
Added(bks, title, author, year) ==
    Append(bks, NewBook(NextId(bks), title, author, year))

\* Library.add_book(title, author, year), its write doing w.
add_book(title, author, year, w) ==
    /\ Constructed
    /\ Len(books) < MaxBooks
    /\ MayWrite(w)
    /\ books' = Added(books, title, author, year)
    /\ file' = save_books(books', file, w)
    /\ results' = NoResults
    /\ last' = Call("add", 0, title, author, year, <<>>, RetNone, Raised(w), w)
    /\ pre' = Snapshot
    /\ addsOnly' = addsOnly
    /\ added' = IF addsOnly THEN Append(added, <<title, author, year>>) ELSE <<>>
    /\ issued' = issued \cup {NextId(books)}
    /\ faults' = Faults(w)

\* any(book.book_id == book_id for book in self.books)
HasId(bks, book_id) == \E i \in 1 .. Len(bks) : bks[i].book_id = book_id

\* [book for book in self.books if book.book_id != book_id]
Without(bks, book_id) == SelectSeq(bks, LAMBDA b : b.book_id # book_id)

\* delete_book without its not-found return: it filters and saves always.
delete_book_unguarded(book_id, w) ==
    /\ Constructed
    /\ MayWrite(w)
    /\ books' = Without(books, book_id)
    /\ file' = save_books(books', file, w)
    /\ last' = Call("delete", book_id, <<>>, <<>>, 0, <<>>,
                    IF w = "ok" THEN RetDeleted(book_id) ELSE RetError,
                    "none", w)
    /\ faults' = Faults(w)
    /\ results' = NoResults
    /\ pre' = Snapshot
    /\ addsOnly' = FALSE
    /\ added' = <<>>
    /\ issued' = issued

\* Library.delete_book(book_id), its write doing w. A failed write is caught
\* and its text returned in place of the message.
delete_book(book_id, w) ==
    /\ Constructed
    /\ MayWrite(w)
    /\ IF HasId(books, book_id)
       THEN /\ books' = Without(books, book_id)
            /\ file' = save_books(books', file, w)
            /\ last' = Call("delete", book_id, <<>>, <<>>, 0, <<>>,
                            IF w = "ok" THEN RetDeleted(book_id) ELSE RetError,
                            "none", w)
            /\ faults' = Faults(w)
       ELSE /\ w = "ok"
            /\ books' = books
            /\ file' = file
            /\ last' = Call("delete", book_id, <<>>, <<>>, 0, <<>>,
                            RetNotFound(book_id), "none", "none")
            /\ faults' = faults
    /\ results' = NoResults
    /\ pre' = Snapshot
    /\ addsOnly' = FALSE
    /\ added' = <<>>
    /\ issued' = issued

\* The position of the first book with this id: where the loop of
\* change_book_status stops.
FirstWithId(bks, book_id) ==
    CHOOSE i \in 1 .. Len(bks) :
        /\ bks[i].book_id = book_id
        /\ \A j \in 1 .. (i - 1) : bks[j].book_id # book_id

\* The loop of change_book_status without its break.
WithStatus_no_break(bks, book_id, new_status) ==
    [i \in 1 .. Len(bks) |->
        IF bks[i].book_id = book_id
        THEN [bks[i] EXCEPT !.status = new_status]
        ELSE bks[i]]

\* The list after change_book_status's loop.
WithStatus(bks, book_id, new_status) ==
    IF HasId(bks, book_id)
    THEN [bks EXCEPT ![FirstWithId(bks, book_id)].status = new_status]
    ELSE bks

\* change_book_status with save_books after the loop and not inside it.
change_book_status_saves(book_id, new_status, w) ==
    /\ Constructed
    /\ MayWrite(w)
    /\ books' = WithStatus(books, book_id, new_status)
    /\ file' = save_books(books', file, w)
    /\ last' = Call("status", book_id, <<>>, <<>>, 0, new_status,
                    RetNone, Raised(w), w)
    /\ faults' = Faults(w)
    /\ results' = NoResults
    /\ pre' = Snapshot
    /\ addsOnly' = FALSE
    /\ added' = <<>>
    /\ issued' = issued

\* Library.change_book_status(book_id, new_status), its write doing w.
change_book_status(book_id, new_status, w) ==
    /\ Constructed
    /\ MayWrite(w)
    /\ books' = WithStatus(books, book_id, new_status)
    /\ IF HasId(books, book_id)
       THEN /\ file' = save_books(books', file, w)
            /\ last' = Call("status", book_id, <<>>, <<>>, 0, new_status,
                            RetNone, Raised(w), w)
            /\ faults' = Faults(w)
       ELSE /\ w = "ok"
            /\ file' = file
            /\ last' = Call("status", book_id, <<>>, <<>>, 0, new_status,
                            RetNone, "none", "none")
            /\ faults' = faults
    /\ results' = NoResults
    /\ pre' = Snapshot
    /\ addsOnly' = FALSE
    /\ added' = <<>>
    /\ issued' = issued

\* ----------------------------------------------------------- search_books

\* str.lower() on one letter.
LowerChar(c) ==
    CASE c = "A" -> "a"
      [] c = "B" -> "b"
      [] OTHER -> c

\* str.lower().
Lower(s) == [i \in 1 .. Len(s) |-> LowerChar(s[i])]

\* The operator `in` on two texts: needle occurs in hay as a substring.
In(needle, hay) ==
    \E k \in 0 .. (Len(hay) - Len(needle)) :
        SubSeq(hay, k + 1, k + Len(needle)) = needle

\* `if title:` and `if author:`: neither None nor the empty text.
TruthyText(arg) == arg.given /\ arg.val # <<>>

\* `if year:`: neither None nor 0.
TruthyYear(arg) == arg.given /\ arg.val # 0

\* The title filter with the book's title not lowered.
ByTitle_cased(bks, refs, title) ==
    IF TruthyText(title)
    THEN SelectSeq(refs, LAMBDA i : In(Lower(title.val), bks[i].title))
    ELSE refs

\* The positions, in order, of the books search_books keeps.
ByTitle(bks, refs, title) ==
    IF TruthyText(title)
    THEN SelectSeq(refs, LAMBDA i : In(Lower(title.val), Lower(bks[i].title)))
    ELSE refs

ByAuthor(bks, refs, author) ==
    IF TruthyText(author)
    THEN SelectSeq(refs, LAMBDA i : In(Lower(author.val), Lower(bks[i].author)))
    ELSE refs

ByYear(bks, refs, year) ==
    IF TruthyYear(year)
    THEN SelectSeq(refs, LAMBDA i : bks[i].year = year.val)
    ELSE refs

AllRefs(bks) == [i \in 1 .. Len(bks) |-> i]

Found(bks, title, author, year) ==
    ByYear(bks, ByAuthor(bks, ByTitle(bks, AllRefs(bks), title), author), year)

\* `results = self.books` is returned as it is when no filter rebinds it.
Aliased(title, author, year) ==
    ~ TruthyText(title) /\ ~ TruthyText(author) /\ ~ TruthyYear(year)

\* Library.search_books(title, author, year).
search_books(title, author, year) ==
    /\ Constructed
    /\ results' = [alias |-> Aliased(title, author, year),
                   refs |-> Found(books, title, author, year)]
    /\ last' = Call("search", 0, title, author, year, <<>>, RetNone, "none", "none")
    /\ pre' = Snapshot
    /\ addsOnly' = FALSE
    /\ added' = <<>>
    /\ issued' = issued
    /\ UNCHANGED <<books, file, faults>>

\* ------------------------------------------------- the caller of the search

\* The caller still holds the list search_books returned.
Holding == last.op \in {"search", "append", "pop", "set_status"}

\* The caller's `results.append(book)`. A book that is not in the catalog
\* has position 0.
CallerAppend(book) ==
    /\ Holding
    /\ Len(results.refs) < MaxBooks
    /\ IF results.alias
       THEN /\ books' = Append(books, book)
            /\ results' = [results EXCEPT !.refs = Append(@, Len(books) + 1)]
       ELSE /\ books' = books
            /\ results' = [results EXCEPT !.refs = Append(@, 0)]
    /\ last' = Call("append", book.book_id, book.title, book.author, book.year,
                    book.status, RetNone, "none", "none")
    /\ pre' = Snapshot
    /\ addsOnly' = FALSE
    /\ added' = <<>>
    /\ issued' = issued
    /\ UNCHANGED <<file, faults>>

\* The caller's `results.pop()`.
CallerPop ==
    /\ Holding
    /\ results.refs # <<>>
    /\ books' = IF results.alias THEN SubSeq(books, 1, Len(books) - 1) ELSE books
    /\ results' = [results EXCEPT !.refs = SubSeq(@, 1, Len(@) - 1)]
    /\ last' = Call("pop", 0, <<>>, <<>>, 0, <<>>, RetNone, "none", "none")
    /\ pre' = Snapshot
    /\ addsOnly' = FALSE
    /\ added' = <<>>
    /\ issued' = issued
    /\ UNCHANGED <<file, faults>>

\* The caller's `results[k].status = new_status` (k counted from 1).
CallerSetStatus(k, new_status) ==
    /\ Holding
    /\ k \in 1 .. Len(results.refs)
    /\ books' = IF results.refs[k] # 0
                THEN [books EXCEPT ![results.refs[k]].status = new_status]
                ELSE books
    /\ results' = results
    /\ last' = Call("set_status", k, <<>>, <<>>, 0, new_status, RetNone,
                    "none", "none")
    /\ pre' = Snapshot
    /\ addsOnly' = FALSE
    /\ added' = <<>>
    /\ issued' = issued
    /\ UNCHANGED <<file, faults>>

\* --------------------------------------------------------- specifications

\* The calls that change the catalog, every write doing what it may.
Next ==
    \/ \E in \in FewInputs, w \in WriteOutcomes : add_book(in[1], in[2], in[3], w)
    \/ \E book_id \in BookIds, w \in WriteOutcomes : delete_book(book_id, w)
    \/ \E book_id \in BookIds, new_status \in Statuses, w \in WriteOutcomes :
           change_book_status(book_id, new_status, w)
    \/ NewLibrary

Spec == Init /\ [][Next]_vars

\* ------------------------------------------------------------------- main

\* What is typed where main calls int(): numbers, a text that is no number,
\* and nothing at all.
YearTexts == { <<"0">>, <<"-", "1">>, <<"x">>, <<>> }

IdTexts == { <<"1">>, <<"2">>, <<"x">> }

Digits == {"0", "1", "2"}

DigitValue(c) ==
    CASE c = "0" -> 0
      [] c = "1" -> 1
      [] OTHER -> 2

\* The number a text of digits writes.
RECURSIVE Unsigned(_)
Unsigned(s) ==
    IF s = <<>> THEN 0
    ELSE 10 * Unsigned(SubSeq(s, 1, Len(s) - 1)) + DigitValue(s[Len(s)])

AllDigits(s) == s # <<>> /\ \A i \in 1 .. Len(s) : s[i] \in Digits

\* int(text) returns: the text is digits after an optional sign.
IsInt(text) ==
    IF text # <<>> /\ Head(text) = "-" THEN AllDigits(Tail(text))
    ELSE AllDigits(text)

\* int(text) when it returns.
IntOf(text) ==
    IF Head(text) = "-" THEN 0 - Unsigned(Tail(text)) ELSE Unsigned(text)

\* The loop of main is still asking: no exception left it and 6 was not chosen.
Running == last.raised = "none" /\ last.op # "exit"

\* int() raising ValueError in a branch of main: nothing catches it.
ValueError(op, title, author, text) ==
    /\ last' = Call(op, 0, title, author, 0, text, RetNone, "ValueError", "none")
    /\ pre' = Snapshot
    /\ results' = NoResults
    /\ addsOnly' = FALSE
    /\ added' = <<>>
    /\ issued' = issued
    /\ UNCHANGED <<books, file, faults>>

\* A branch of main that calls nothing of Library that changes it.
Shown(op) ==
    /\ last' = Call(op, 0, <<>>, <<>>, 0, <<>>, RetNone, "none", "none")
    /\ pre' = Snapshot
    /\ results' = NoResults
    /\ addsOnly' = FALSE
    /\ added' = <<>>
    /\ issued' = issued
    /\ UNCHANGED <<books, file, faults>>

\* choice == "1"
MenuAdd(title, author, text) ==
    /\ Running
    /\ IF IsInt(text)
       THEN add_book(title, author, IntOf(text), "ok")
       ELSE ValueError("menu_add", title, author, text)

\* choice == "2"
MenuDelete(text) ==
    /\ Running
    /\ IF IsInt(text)
       THEN delete_book(IntOf(text), "ok")
       ELSE ValueError("menu_delete", <<>>, <<>>, text)

\* choice == "3": an empty year is None, an empty title or author is "".
MenuSearch(title, author, text) ==
    /\ Running
    /\ IF text = <<>>
       THEN search_books(Text(title), Text(author), NoYear)
       ELSE IF IsInt(text)
            THEN search_books(Text(title), Text(author), Year(IntOf(text)))
            ELSE ValueError("menu_search", title, author, text)

\* choice == "4"
MenuDisplay == Running /\ Shown("display")

\* choice == "5"
MenuStatus(text, new_status) ==
    /\ Running
    /\ IF IsInt(text)
       THEN change_book_status(IntOf(text), new_status, "ok")
       ELSE ValueError("menu_status", <<>>, <<>>, text)

\* choice == "6"
MenuExit == Running /\ Shown("exit")

\* any other choice
MenuUnknown == Running /\ Shown("unknown")

\* main: one pass of its loop.
NextMenu ==
    \/ \E in \in FewInputs, text \in YearTexts : MenuAdd(in[1], in[2], text)
    \/ \E text \in IdTexts : MenuDelete(text)
    \/ \E title \in {<<>>, <<"a", "B">>}, author \in {<<>>, <<"b">>},
          text \in YearTexts : MenuSearch(title, author, text)
    \/ MenuDisplay
    \/ \E text \in IdTexts, new_status \in Statuses : MenuStatus(text, new_status)
    \/ MenuExit
    \/ MenuUnknown

SpecMenu == Init /\ [][NextMenu]_vars

\* The file edited outside the program: entry i, complete so far, loses one
\* of its keys.
DropKey(i, key) ==
    /\ file.state = "json"
    /\ i \in 1 .. Len(file.data)
    /\ WellFormed(file.data[i])
    /\ key \in DOMAIN file.data[i]
    /\ file' = [file EXCEPT !.data[i] =
                   [k \in (DOMAIN file.data[i]) \ {key} |-> file.data[i][k]]]
    /\ last' = Call("edit", i, <<>>, <<>>, 0, <<>>, RetNone, "none", "none")
    /\ pre' = Snapshot
    /\ results' = NoResults
    /\ addsOnly' = FALSE
    /\ added' = <<>>
    /\ issued' = issued
    /\ UNCHANGED <<books, faults>>

\* The calls that fill the file, edits of the file, and reopening it.
NextLoad ==
    \/ \E in \in FewInputs : add_book(in[1], in[2], in[3], "ok")
    \/ \E book_id \in BookIds : delete_book(book_id, "ok")
    \/ \E i \in 1 .. MaxBooks, key \in Keys : DropKey(i, key)
    \/ NewLibrary

SpecLoad == Init /\ [][NextLoad]_vars

\* The calls that add and remove books, every write succeeding, and the
\* searches. A search reads no status, so none is changed here.
NextSearch ==
    \/ \E in \in Inputs : add_book(in[1], in[2], in[3], "ok")
    \/ \E book_id \in BookIds : delete_book(book_id, "ok")
    \/ \E title \in TitleFilters, author \in AuthorFilters, year \in YearFilters :
           search_books(title, author, year)

SpecSearch == Init /\ [][NextSearch]_vars

\* The calls of one run, every write succeeding, and a caller that writes to
\* what search_books returned.
NextCaller ==
    \/ \E in \in FewInputs : add_book(in[1], in[2], in[3], "ok")
    \/ \E book_id \in BookIds : delete_book(book_id, "ok")
    \/ \E book_id \in BookIds, new_status \in Statuses :
           change_book_status(book_id, new_status, "ok")
    \/ \E title \in TitleFilters : search_books(title, NoText, NoYear)
    \/ \E in \in FewInputs : CallerAppend(NewBook(1, in[1], in[2], in[3]))
    \/ CallerPop
    \/ \E k \in 1 .. MaxBooks, new_status \in Statuses :
           CallerSetStatus(k, new_status)

SpecCaller == Init /\ [][NextCaller]_vars

\* ----------------------------------------------------------------- claims

\* The file holds the list bks: as many entries, and entry i has the id,
\* title, author, year and status of book i.
Holds(f, bks) ==
    /\ f.state = "json"
    /\ Len(f.data) = Len(bks)
    /\ \A i \in 1 .. Len(bks) :
           /\ f.data[i].id = bks[i].book_id
           /\ f.data[i].title = bks[i].title
           /\ f.data[i].author = bks[i].author
           /\ f.data[i].year = bks[i].year
           /\ f.data[i].status = bks[i].status

\* No book of bks has this id.
Absent(bks, book_id) == \A i \in 1 .. Len(bks) : bks[i].book_id # book_id

\* bks with the entry at position k taken out.
Dropped(bks, k) == SubSeq(bks, 1, k - 1) \o SubSeq(bks, k + 1, Len(bks))

Mutators == {"add", "delete", "status"}

\* C1: no two records of Library.books carry the same book_id, in every
\* state reached from the empty catalog by add_book, delete_book and
\* change_book_status.
C1_UniqueIds ==
    \A i, j \in 1 .. Len(books) :
        i # j => books[i].book_id # books[j].book_id

\* C2: after a call whose write succeeded the file holds exactly the books of
\* Library.books, in order; a call that changed the list did write the file;
\* and while no write has failed, the file is missing only with an empty list
\* and otherwise holds the list.
C2_Synchronised ==
    /\ (last.op \in Mutators /\ last.write = "ok") => Holds(file, books)
    /\ (last.op \in Mutators /\ books # pre.books) => last.write # "none"
    /\ faults = 0 =>
           IF file.state = "missing" THEN books = <<>> ELSE Holds(file, books)

C2_Witness ==
    /\ last.op = "status"
    /\ last.write = "ok"
    /\ books # pre.books
    /\ Len(books) = 2
    /\ Holds(file, books)

\* C3: delete_book(id) with a present id, its write succeeding, removes
\* exactly one entry: the list is one shorter, it is the old list with one
\* entry that carried the id taken out, the success message is returned and
\* the file holds the reduced list.
C3_DeleteRemovesOne ==
    (last.op = "delete" /\ ~ Absent(pre.books, last.id) /\ last.write = "ok") =>
        /\ Len(books) = Len(pre.books) - 1
        /\ \E k \in 1 .. Len(pre.books) :
               /\ pre.books[k].book_id = last.id
               /\ books = Dropped(pre.books, k)
        /\ last.ret = RetDeleted(last.id)
        /\ Holds(file, books)

\* C4: delete_book(id) with an id no record carries leaves Library.books and
\* the file as they were (nothing is written, no file appears) and returns
\* the not-found message without raising.
C4_DeleteAbsent ==
    (last.op = "delete" /\ Absent(pre.books, last.id)) =>
        /\ books = pre.books
        /\ file = pre.file
        /\ last.write = "none"
        /\ last.ret = RetNotFound(last.id)
        /\ last.raised = "none"

C4_Witness ==
    /\ last.op = "delete"
    /\ Absent(pre.books, last.id)
    /\ pre.books # <<>>
    /\ last.ret.kind = "not_found"

\* C5: after N add_book calls and nothing else on an empty catalog, the
\* catalog holds N records, record i with the title, author and year of call
\* i and the default status, and the id of the newest record is the id of no
\* record that was there when it was made.
C5_AddsOnly ==
    addsOnly =>
        /\ Len(books) = Len(added)
        /\ \A i \in 1 .. Len(books) :
               /\ books[i].title = added[i][1]
               /\ books[i].author = added[i][2]
               /\ books[i].year = added[i][3]
               /\ books[i].status = DefaultStatus
        /\ last.op = "add" => Absent(pre.books, books[Len(books)].book_id)

C5_Witness ==
    /\ addsOnly
    /\ last.op = "add"
    /\ Len(books) = 2
    /\ books[1].title # books[2].title

\* C6: while no write has failed, a fresh Library on the same path holds a
\* list equal to the one before it (same ids, titles, authors, years and
\* statuses in the same order), and a fresh Library on a path with no file
\* holds the empty list; neither raises.
C6_RoundTrip ==
    /\ (last.op = "init" /\ faults = 0) =>
           (books = pre.books /\ last.raised = "none")
    /\ (last.op = "init" /\ pre.file.state = "missing") =>
           (books = <<>> /\ last.raised = "none")

C6_Witness ==
    /\ last.op = "init"
    /\ faults = 0
    /\ Len(pre.books) = 2
    /\ pre.books[1].status # DefaultStatus
    /\ books = pre.books

\* C7: change_book_status(id, s) with a present id changes the status of one
\* record carrying that id and nothing else: that record's other fields,
\* every other record, the length and the order stay, and when the write
\* succeeds the file holds the list with the new status.
C7_StatusOnly ==
    (last.op = "status" /\ ~ Absent(pre.books, last.id)) =>
        /\ Len(books) = Len(pre.books)
        /\ \E k \in 1 .. Len(books) :
               /\ pre.books[k].book_id = last.id
               /\ books[k] = [pre.books[k] EXCEPT !.status = last.status]
               /\ \A j \in 1 .. Len(books) : j # k => books[j] = pre.books[j]
        /\ last.write = "ok" => Holds(file, books)

C7_Witness ==
    /\ last.op = "status"
    /\ ~ Absent(pre.books, last.id)
    /\ Len(books) = 2
    /\ books # pre.books
    /\ last.write = "ok"

\* Two letters that differ at most in case.
SameLetter(c, d) ==
    \/ c = d
    \/ {c, d} = {"a", "A"}
    \/ {c, d} = {"b", "B"}

\* The text hay contains the text needle, letters compared without case.
ContainsNoCase(needle, hay) ==
    \E k \in 0 .. (Len(hay) - Len(needle)) :
        \A j \in 1 .. Len(needle) : SameLetter(needle[j], hay[k + j])

\* A filter that is omitted or empty keeps every text.
Keeps(filter, text) ==
    (filter.given /\ filter.val # <<>>) => ContainsNoCase(filter.val, text)

\* The books the caller was handed, in the order of the returned list.
Returned == [k \in 1 .. Len(results.refs) |-> books[results.refs[k]]]

\* C8: with year omitted, search_books returns exactly the records whose title
\* contains the title filter and whose author contains the author filter,
\* without regard to case, in catalog order; an omitted or empty filter keeps
\* everything, and nothing is raised when nothing matches.
C8_SearchByText ==
    (last.op = "search" /\ ~ last.year.given) =>
        /\ \A k \in 1 .. Len(results.refs) : results.refs[k] \in 1 .. Len(books)
        /\ \A k \in 1 .. (Len(results.refs) - 1) :
               results.refs[k] < results.refs[k + 1]
        /\ \A i \in 1 .. Len(books) :
               (\E k \in 1 .. Len(results.refs) : results.refs[k] = i)
                   <=> (Keeps(last.title, books[i].title)
                          /\ Keeps(last.author, books[i].author))
        /\ last.raised = "none"

C8_Witness ==
    /\ last.op = "search"
    /\ ~ last.year.given
    /\ last.title.given /\ last.title.val # <<>>
    /\ last.author.given /\ last.author.val # <<>>
    /\ Len(books) = 2
    /\ results.refs = <<2>>
    /\ books[1].title = books[2].title

\* C9: when search_books is given a year, whatever the integer, every record
\* it returns has exactly that year.
C9_YearExact ==
    (last.op = "search" /\ last.year.given) =>
        \A k \in 1 .. Len(results.refs) : Returned[k].year = last.year.val

\* C10: nothing the caller does to the list search_books returned, or to the
\* records in it, changes Library.books.
C10_NoAliasing ==
    last.op \in {"append", "pop", "set_status"} => books = pre.books

\* A write of the file that failed.
Failed == {"open_fail", "write_fail"}

\* C11: a failed write in add_book, delete_book or change_book_status reaches
\* the caller the same way in all three, as a returned error and not as an
\* exception that ends the caller, and the list keeps the change made before
\* the save.
C11_FailureSurfaced ==
    (last.op \in Mutators /\ last.write \in Failed) =>
        /\ last.raised = "none"
        /\ last.ret = RetError
        /\ last.op = "add" => Len(books) = Len(pre.books) + 1

\* C12: change_book_status(id, s) with an id no record carries changes
\* nothing and writes nothing: Library.books and the file are as before, and
\* a file that was missing is still missing.
C12_StatusAbsent ==
    (last.op = "status" /\ Absent(pre.books, last.id)) =>
        /\ books = pre.books
        /\ file = pre.file
        /\ last.write = "none"
        /\ last.raised = "none"

C12_Witness ==
    /\ last.op = "status"
    /\ Absent(pre.books, last.id)
    /\ file.state = "missing"
    /\ books # <<>>

\* C13: delete_book and change_book_status on an id no record carries report
\* not-found to the caller, as a result and not as an exception.
C13_NotFoundReported ==
    (last.op \in {"delete", "status"} /\ Absent(pre.books, last.id)) =>
        /\ last.raised = "none"
        /\ last.ret = RetNotFound(last.id)

\* C16: add_book(title, author, year) appends one record, with id = the count
\* before the call + 1, the default status and the values given, leaves the
\* records before it as they were, and writes the file.
C16_AddAppends ==
    last.op = "add" =>
        /\ books = Append(pre.books,
                          [book_id |-> Len(pre.books) + 1,
                           title |-> last.title,
                           author |-> last.author,
                           year |-> last.year,
                           status |-> DefaultStatus])
        /\ last.write # "none"
        /\ last.write = "ok" => Holds(file, books)

C16_Witness ==
    /\ last.op = "add"
    /\ Len(pre.books) = 1
    /\ pre.books[1].book_id = 2
    /\ pre.books[1].status # DefaultStatus
    /\ last.year < 0
    /\ last.write = "ok"

\* s is t with some entries taken out, the rest in t's order.
RECURSIVE IsSubsequence(_, _)
IsSubsequence(s, t) ==
    IF s = <<>> THEN TRUE
    ELSE IF t = <<>> THEN FALSE
    ELSE IF Head(s) = Head(t) THEN IsSubsequence(Tail(s), Tail(t))
    ELSE IsSubsequence(s, Tail(t))

\* Two records that differ at most in status.
SameBut(b, c) == b = [c EXCEPT !.status = b.status]

C19_IdAtLeastPosition ==
    /\ \A i \in 1 .. Len(books) : books[i].book_id >= i
    /\ last.op = "add" =>
           \A i \in 1 .. Len(pre.books) :
               pre.books[i].book_id = books[Len(books)].book_id
                   => pre.books[i].book_id > i

C19_Witness ==
    /\ last.op = "add"
    /\ Len(books) = 2
    /\ books[1].book_id = books[2].book_id

\* C15: ids are reused. An add_book made while fewer records are present
\* than ids have been given out gives the new record an id that an earlier
\* record was given.
C15_IdReused ==
    (last.op = "add" /\ Len(pre.books) < Cardinality(pre.issued)) =>
        books[Len(books)].book_id \in pre.issued

C15_Witness ==
    /\ last.op = "add"
    /\ books[Len(books)].book_id \in pre.issued
    /\ Len(pre.books) = 1
    /\ pre.books[1].book_id = books[Len(books)].book_id
    /\ pre.books[1].title # books[Len(books)].title

\* C14: when an entry of the file lacks one of the keys id, title, author,
\* year, status, loading raises, and the catalog does not hold the other
\* entries with the bad one left out.
C14_MalformedFails ==
    (/\ last.op = "init"
     /\ pre.file.state = "json"
     /\ \E i \in 1 .. Len(pre.file.data) :
            \E key \in {"id", "title", "author", "year", "status"} :
                key \notin DOMAIN pre.file.data[i]) =>
        /\ last.raised # "none"
        /\ books = <<>>

C14_Witness ==
    /\ last.op = "init"
    /\ pre.file.state = "json"
    /\ Len(pre.file.data) = 2
    /\ DOMAIN pre.file.data[1] = {"id", "title", "author", "year", "status"}
    /\ DOMAIN pre.file.data[2] = {"id", "title", "author", "year"}
    /\ last.raised = "KeyError"

\* The branches of main in which int() did not convert what was typed.
Unconverted == {"menu_add", "menu_delete", "menu_search", "menu_status"}

\* C18: in the menu loop, input that int() cannot convert ends neither the
\* loop nor the process: the catalog is as before and the loop asks again.
C18_MenuSurvives ==
    last.op \in Unconverted =>
        /\ books = pre.books
        /\ file = pre.file
        /\ Running

====
